---- MODULE Spec2Model ----
(***************************************************************************)
(* Model of the local risk engine of the genetic-risk-model client:        *)
(* calculateLocalRisk (client/src/lib/genetics.ts), the Mendelian forward  *)
(* risk of a child and the Bayesian reverse update of the parents from an  *)
(* observed child outcome.                                                 *)
(*                                                                         *)
(* Numbers.  The code computes in IEEE doubles.  The model computes in     *)
(* exact rationals [num, den] in lowest terms, so that "exactly 0.25" and  *)
(* "the two paths agree exactly" are statements about the formulas.        *)
(* Math.round(x) is floor(x + 1/2); x.toFixed(2) is the nearest multiple   *)
(* of 1/100, kept as an integer number of hundredths together with the     *)
(* number of decimals printed.  A printed value that lies exactly halfway  *)
(* between two hundredths (50.025%) is rounded up here; the code prints    *)
(* what the double nearest to it rounds to.                                *)
(***************************************************************************)
EXTENDS Integers, Sequences, FiniteSets, TLC

VARIABLES
    data,       \* the record the engine or the mutation is called with
    result,     \* what the call returned (the mutation: what it resolved with)
    pc,         \* where the caller is
    caught,     \* what the mutation's try block threw, if anything
    request,    \* the body posted to /api/calculate
    handler,    \* where the route handler is
    service,    \* the calls made to the Python risk service
    response    \* the handler's response

vars == <<data, result, pc, caught, request, handler, service, response>>

api == <<pc, caught, request, handler, service, response>>

-----------------------------------------------------------------------------
(* Exact rational arithmetic standing for the code's number type.          *)

RECURSIVE Gcd(_, _)
Gcd(a, b) == IF b = 0 THEN a ELSE Gcd(b, a % b)

Abs(x) == IF x < 0 THEN -x ELSE x

\* The rational n/d (d > 0) in lowest terms.
Rat(n, d) ==
    LET g == Gcd(Abs(n), d)
    IN  [num |-> n \div g, den |-> d \div g]

Zero == Rat(0, 1)
One  == Rat(1, 1)
Half == Rat(1, 2)

\* The least common denominator keeps the intermediate products small.
Lcd(x, y) == (x.den \div Gcd(x.den, y.den)) * y.den

\* x's numerator over the denominator l (a multiple of x.den)
Over(x, l) == x.num * (l \div x.den)

Add(x, y) == LET l == Lcd(x, y) IN Rat(Over(x, l) + Over(y, l), l)
Sub(x, y) == LET l == Lcd(x, y) IN Rat(Over(x, l) - Over(y, l), l)
Mul(x, y) == Rat(x.num * y.num, x.den * y.den)
\* x / y for y > 0 (no divisor the code forms is zero: see PriorXLMother, PriorAR)
Div(x, y) == Rat(x.num * y.den, x.den * y.num)

Less(x, y) == LET l == Lcd(x, y) IN Over(x, l) < Over(y, l)
Leq(x, y)  == LET l == Lcd(x, y) IN Over(x, l) <= Over(y, l)

\* Math.min, Math.max
MathMin(x, y) == IF Leq(x, y) THEN x ELSE y
MathMax(x, y) == IF Leq(x, y) THEN y ELSE x

\* Math.round(x * 100): the nearest integer, halves rounded up
RoundPct(x) == (2 * 100 * x.num + x.den) \div (2 * x.den)

\* (x * 100).toFixed(2), as the integer count of hundredths of a percent
Fixed2Pct(x) == (2 * 10000 * x.num + x.den) \div (2 * x.den)

\* The text `${a.toFixed(2)}% - ${b.toFixed(2)}%`
RangeText(lo, hi) == [min |-> Fixed2Pct(lo), max |-> Fixed2Pct(hi), decimals |-> 2]

\* The initial text "0% - 0%"
InitialRangeText == [min |-> 0, max |-> 0, decimals |-> 0]

-----------------------------------------------------------------------------
(* The vocabulary (shared/schema.ts).  The columns are text: a value that  *)
(* is none of the enumerated ones ("other") can reach calculateLocalRisk.  *)

inheritancePatterns == {"autosomal_dominant", "autosomal_recessive", "x_linked"}
memberStatuses == {"affected", "carrier", "unaffected", "unknown"}
sexes == {"male", "female", "unknown"}

\* observed_child_outcome is optional: "absent" stands for undefined
observedOutcomes == {"absent", "affected", "unaffected", "unknown"}

AnyPattern == inheritancePatterns \cup {"other"}
AnyStatus  == memberStatuses \cup {"other"}

\* InsertCalculation & { observed_child_outcome?: string }
Inputs ==
    [inheritancePattern : AnyPattern,
     motherStatus : AnyStatus,
     fatherStatus : AnyStatus,
     childSex : sexes,
     observed_child_outcome : observedOutcomes]

ValidInput(d) ==
    /\ d.inheritancePattern \in inheritancePatterns
    /\ d.motherStatus \in memberStatuses
    /\ d.fatherStatus \in memberStatuses

-----------------------------------------------------------------------------
(* DEFAULT_PRIORS *)

AR_carrier_prior == Rat(1, 100)
AR_affected_prior == Rat(1, 10000)
AD_affected_prior == Rat(1, 1000)
XL_mother_carrier_prior == Rat(1, 100)
XL_mother_affected_prior == Rat(1, 10000)
XL_father_affected_prior == Rat(5, 10000)

-----------------------------------------------------------------------------
(* The transmission probabilities (helpers of calculateLocalRisk).  A      *)
(* status that is none of affected, carrier, unaffected falls through to   *)
(* the branch written for unknown, as in the code.                         *)

transmitProbAR_MotherOwnPrior(status, role) ==
    IF status = "affected" THEN One
    ELSE IF status = "carrier" THEN Half
    ELSE IF status = "unaffected" THEN Zero
    ELSE IF role = "mother"
         THEN Add(Mul(XL_mother_carrier_prior, Half), Mul(XL_father_affected_prior, One))
         ELSE Add(Mul(AR_carrier_prior, Half), Mul(AR_affected_prior, One))

transmitProbAR(status, role) ==
    IF status = "affected" THEN One
    ELSE IF status = "carrier" THEN Half
    ELSE IF status = "unaffected" THEN Zero
    ELSE IF role = "mother"
         THEN Add(Mul(XL_mother_carrier_prior, Half), Mul(AR_affected_prior, One))
         ELSE Add(Mul(AR_carrier_prior, Half), Mul(AR_affected_prior, One))

transmitProbAD_AffectedCertain(status) ==
    IF status = "affected" THEN One
    ELSE IF status = "carrier" THEN Half
    ELSE IF status = "unaffected" THEN Zero
    ELSE Mul(AD_affected_prior, Half)

transmitProbAD(status) ==
    IF status = "affected" \/ status = "carrier" THEN Half
    ELSE IF status = "unaffected" THEN Zero
    ELSE Mul(AD_affected_prior, Half)

motherTransmitXLR_CarrierSilent(status) ==
    IF status = "affected" THEN One
    ELSE IF status = "unaffected" \/ status = "carrier" THEN Zero
    ELSE Add(Mul(XL_mother_carrier_prior, Half), Mul(XL_mother_affected_prior, One))

motherTransmitXLR(status) ==
    IF status = "affected" THEN One
    ELSE IF status = "carrier" THEN Half
    ELSE IF status = "unaffected" THEN Zero
    ELSE Add(Mul(XL_mother_carrier_prior, Half), Mul(XL_mother_affected_prior, One))

fatherTransmitToDaughterXLR_AsAutosomal(status) ==
    IF status = "affected" THEN One
    ELSE IF status = "carrier" THEN Half
    ELSE IF status = "unaffected" THEN Zero
    ELSE XL_father_affected_prior

fatherTransmitToDaughterXLR(status) ==
    IF status = "affected" THEN One
    ELSE IF status = "unaffected" THEN Zero
    ELSE XL_father_affected_prior

-----------------------------------------------------------------------------
(* The forward risk, from the two parents' transmission probabilities.     *)
(* risk is the local `risk` (min = max), or minRisk/maxRisk when the sex   *)
(* of an x_linked child is neither male nor female; point is the value     *)
(* that riskPercentage rounds.                                             *)

autosomalRecessiveRisk(p_f, p_m) == Mul(p_f, p_m)

autosomalDominantRisk(p_f, p_m) == Sub(One, Mul(Sub(One, p_f), Sub(One, p_m)))

xLinkedRange_Swapped(maleRisk, femaleRisk) ==
    [min |-> MathMax(maleRisk, femaleRisk),
     max |-> MathMin(maleRisk, femaleRisk),
     point |-> Mul(Add(maleRisk, femaleRisk), Half)]

xLinkedRange_MaleOnly(maleRisk, femaleRisk) ==
    [min |-> maleRisk, max |-> maleRisk, point |-> maleRisk]

xLinkedRange(maleRisk, femaleRisk) ==
    [min |-> MathMin(maleRisk, femaleRisk),
     max |-> MathMax(maleRisk, femaleRisk),
     point |-> Mul(Add(maleRisk, femaleRisk), Half)]

Exactly(risk) == [min |-> risk, max |-> risk, point |-> risk]

\* The forward formula of each pattern, applied to the probability p_m
\* that the mother and p_f that the father transmits (for x_linked, p_f is
\* the father's probability of giving a daughter the mutant X).
RiskFromTransmission(pattern, childSex, p_m, p_f) ==
    IF pattern = "autosomal_recessive" THEN Exactly(autosomalRecessiveRisk(p_f, p_m))
    ELSE IF pattern = "autosomal_dominant" THEN Exactly(autosomalDominantRisk(p_f, p_m))
    ELSE IF pattern = "x_linked" THEN
        IF childSex = "male" THEN Exactly(p_m)
        ELSE IF childSex = "female" THEN Exactly(Mul(p_m, p_f))
        ELSE xLinkedRange(p_m, Mul(p_m, p_f))
    ELSE Exactly(Zero)

MotherTransmission(d) ==
    IF d.inheritancePattern = "autosomal_recessive" THEN transmitProbAR(d.motherStatus, "mother")
    ELSE IF d.inheritancePattern = "autosomal_dominant" THEN transmitProbAD(d.motherStatus)
    ELSE motherTransmitXLR(d.motherStatus)

FatherTransmission(d) ==
    IF d.inheritancePattern = "autosomal_recessive" THEN transmitProbAR(d.fatherStatus, "father")
    ELSE IF d.inheritancePattern = "autosomal_dominant" THEN transmitProbAD(d.fatherStatus)
    ELSE fatherTransmitToDaughterXLR(d.fatherStatus)

\* The local risk values the forward block computes
ForwardRisk(d) ==
    RiskFromTransmission(d.inheritancePattern, d.childSex,
                         MotherTransmission(d), FatherTransmission(d))

\* `Father: ${fatherStatus}`, `Mother: ${motherStatus}`
Factor(who, status) == <<who, status>>

ForwardExplanation(d) ==
    IF d.inheritancePattern = "autosomal_recessive" THEN "AR: both parents transmit"
    ELSE IF d.inheritancePattern = "autosomal_dominant" THEN "AD: at least one parent transmits"
    ELSE IF d.inheritancePattern = "x_linked" THEN
        IF d.childSex = "male" THEN "XLR: male, mother transmits"
        ELSE IF d.childSex = "female" THEN "XLR: female, both parents"
        ELSE "XLR: risk differs by sex"
    ELSE ""

ForwardReasoning(d) ==
    IF d.inheritancePattern \in {"autosomal_recessive", "autosomal_dominant"}
    THEN <<Factor("Father", d.fatherStatus), Factor("Mother", d.motherStatus)>>
    ELSE IF d.inheritancePattern = "x_linked"
    THEN <<Factor("Mother", d.motherStatus), Factor("Father", d.fatherStatus)>>
    ELSE << >>

\* The display values after the forward block (before any reverse update)
Forward(d) ==
    LET r == ForwardRisk(d)
    IN  [riskPercentage |-> IF d.inheritancePattern \in inheritancePatterns
                            THEN RoundPct(r.point) ELSE 0,
         riskRange |-> IF d.inheritancePattern \in inheritancePatterns
                       THEN RangeText(r.min, r.max) ELSE InitialRangeText,
         reasoning |-> ForwardReasoning(d),
         explanation |-> ForwardExplanation(d)]

-----------------------------------------------------------------------------
(* The Bayesian reverse update                                             *)

\* null, as a value no update record equals
Null == [null |-> TRUE]

\* const observed = (data as any).observed_child_outcome
Observed_Defaulted(d) ==
    IF d.observed_child_outcome \in {"absent", "unknown"}
    THEN "unaffected" ELSE d.observed_child_outcome

Observed(d) == d.observed_child_outcome

\* observed && observed !== 'unknown'
ObservedGiven(observed) == observed # "absent" /\ observed # "unknown"

\* status === 'unaffected' ? 0.0 : 1.0
PinnedByAffectedChild_KnownOnly(status) ==
    IF status = "affected" \/ status = "carrier" THEN One ELSE Zero

PinnedByAffectedChild(status) == IF status = "unaffected" THEN Zero ELSE One

\* priorMother, priorFather of the autosomal recessive, observed unaffected case
PriorAR(status) ==
    IF status = "carrier" \/ status = "affected" THEN One
    ELSE IF status = "unknown" THEN AR_carrier_prior
    ELSE Zero

\* prior of the x_linked, male child, observed unaffected case
PriorXLMother(status) ==
    IF status = "unknown" THEN XL_mother_carrier_prior
    ELSE IF status = "carrier" \/ status = "affected" THEN One
    ELSE Zero

BayesDenominator_CarrierTermSquared(L, Lnot, prior) ==
    Add(Mul(Mul(L, L), prior), Mul(Lnot, Sub(One, prior)))

\* L * p + L' * (1 - p)
BayesDenominator(L, Lnot, prior) == Add(Mul(L, prior), Mul(Lnot, Sub(One, prior)))

\* (L * p) / (L * p + L' * (1 - p))
BayesPosterior(L, Lnot, prior) == Div(Mul(L, prior), BayesDenominator(L, Lnot, prior))

likelihood_carrier == Rat(3, 4)
likelihood_noncarrier == One

PosteriorAR_HalfLikelihood(prior) ==
    IF Less(Zero, prior) /\ Less(prior, One)
    THEN BayesPosterior(Half, likelihood_noncarrier, prior)
    ELSE prior

\* post1, post2: Bayes' rule only for a prior strictly between 0 and 1
PosteriorAR(prior) ==
    IF Less(Zero, prior) /\ Less(prior, One)
    THEN BayesPosterior(likelihood_carrier, likelihood_noncarrier, prior)
    ELSE prior

\* posterior of the x_linked, male child, observed unaffected case (unguarded)
PosteriorXLMother(prior) == BayesPosterior(Half, One, prior)

Update(p1, p2, lo, hi) ==
    [parent1_carrier_probability |-> p1,
     parent2_carrier_probability |-> p2,
     updated_risk |-> [min |-> lo, max |-> hi]]

ReverseUpdateAR(d, observed) ==
    IF observed = "affected" THEN
        LET m == PinnedByAffectedChild(d.motherStatus)
            f == PinnedByAffectedChild(d.fatherStatus)
        IN  Update(m, f, Mul(m, f), Mul(m, f))
    ELSE IF observed = "unaffected" THEN
        LET post1 == PosteriorAR(PriorAR(d.motherStatus))
            post2 == PosteriorAR(PriorAR(d.fatherStatus))
        IN  Update(post1, post2, Mul(post1, post2), Mul(post1, post2))
    ELSE Null

ReverseUpdateXL(d, observed) ==
    IF observed = "affected" THEN
        IF d.childSex = "male" THEN
            Update(PinnedByAffectedChild(d.fatherStatus),
                   PinnedByAffectedChild(d.motherStatus),
                   motherTransmitXLR(d.motherStatus),
                   motherTransmitXLR(d.motherStatus))
        ELSE IF d.childSex = "female" THEN
            LET r == Mul(motherTransmitXLR(d.motherStatus),
                         fatherTransmitToDaughterXLR(d.fatherStatus))
            IN  Update(PinnedByAffectedChild(d.fatherStatus),
                       PinnedByAffectedChild(d.motherStatus), r, r)
        ELSE Null
    ELSE IF observed = "unaffected" /\ d.childSex = "male" THEN
        LET posterior == PosteriorXLMother(PriorXLMother(d.motherStatus))
        IN  Update(IF d.fatherStatus = "carrier" THEN One ELSE Zero,
                   posterior, posterior, posterior)
    ELSE Null

BayesianUpdate_DominantAsRecessive(d) ==
    LET observed == Observed(d)
    IN  IF ~ObservedGiven(observed) THEN Null
        ELSE IF d.inheritancePattern = "x_linked" THEN ReverseUpdateXL(d, observed)
        ELSE ReverseUpdateAR(d, observed)

\* bayesian at the return statement
BayesianUpdate(d) ==
    LET observed == Observed(d)
    IN  IF ~ObservedGiven(observed) THEN Null
        ELSE IF d.inheritancePattern = "autosomal_recessive" THEN ReverseUpdateAR(d, observed)
        ELSE IF d.inheritancePattern = "x_linked" THEN ReverseUpdateXL(d, observed)
        ELSE Null

\* Only the autosomal recessive branches write the display values again
UpdatedExplanation(d) ==
    IF Observed(d) = "affected"
    THEN "Observed affected child implies both parents are likely carriers."
    ELSE "Observed unaffected child reduces the posterior probability."

calculateLocalRisk(d) ==
    LET fwd == Forward(d)
        bayesian == BayesianUpdate(d)
        rewrites == bayesian # Null /\ d.inheritancePattern = "autosomal_recessive"
    IN  [riskPercentage |-> IF rewrites THEN RoundPct(bayesian.updated_risk.min)
                            ELSE fwd.riskPercentage,
         riskRange |-> IF rewrites
                       THEN RangeText(bayesian.updated_risk.min, bayesian.updated_risk.max)
                       ELSE fwd.riskRange,
         confidence |-> "High",
         reasoning |-> fwd.reasoning,
         explanation |-> IF rewrites THEN UpdatedExplanation(d) ELSE fwd.explanation,
         bayesianUpdate |-> bayesian]

-----------------------------------------------------------------------------
(* The state machine: an input record is given, the engine is called on    *)
(* it, and the next input is given.                                        *)

\* before the call returns
NoResult == [pending |-> TRUE]

\* no request is in flight
NoRequest == [none |-> TRUE]
NoResponse == [none |-> TRUE]
NoCall == [calls |-> 0, body |-> NoRequest, answer |-> "none", result |-> Null]

Init ==
    /\ data \in Inputs
    /\ result = NoResult
    /\ pc = "local"
    /\ caught = "none"
    /\ request = NoRequest
    /\ handler = "idle"
    /\ service = NoCall
    /\ response = NoResponse

Calculate_OverwriteStatuses ==
    /\ pc = "local"
    /\ result = NoResult
    /\ result' = calculateLocalRisk(data)
    /\ data' = IF BayesianUpdate(data) # Null
               THEN [data EXCEPT !.motherStatus = "carrier"]
               ELSE data
    /\ UNCHANGED api

\* const local = calculateLocalRisk(data)
Calculate ==
    /\ pc = "local"
    /\ result = NoResult
    /\ result' = calculateLocalRisk(data)
    /\ UNCHANGED <<data, api>>

\* the next call, on any input record
NextInput ==
    /\ pc = "local"
    /\ result # NoResult
    /\ data' \in Inputs
    /\ result' = NoResult
    /\ UNCHANGED api

Next == Calculate \/ NextInput

Spec == Init /\ [][Next]_vars

-----------------------------------------------------------------------------
(* The request path: the useCalculateRisk mutation posts the calculation   *)
(* to /api/calculate, the route handler validates the body and calls the   *)
(* Python risk service, and the mutation falls back to calculateLocalRisk  *)
(* when anything in its try block throws.                                  *)

\* an optional value: not given (undefined), or given
Absent == [absent |-> TRUE]
Given(v) == [value |-> v]

\* a property JSON.stringify drops, or the client left out
Missing == [missing |-> TRUE]
StatusObject(status) == [status |-> status]

\* the generation counts tried: 0 .. MaxGenerations, or none
MaxGenerations == 4

GenerationValues == {Absent} \cup {Given(n) : n \in 0..MaxGenerations}

\* the mutation's argument
HookInputs ==
    [inheritancePattern : AnyPattern,
     motherStatus : AnyStatus,
     fatherStatus : AnyStatus,
     childSex : sexes,
     observed_child_outcome : observedOutcomes,
     generations : GenerationValues,
     maternalGrandmotherStatus : {"absent", "carrier"},
     maternalGrandfatherStatus : {"absent"},
     paternalGrandmotherStatus : {"absent"},
     paternalGrandfatherStatus : {"absent"}]

\* const generations = data.generations || 2
Generations(d) ==
    IF d.generations = Absent \/ d.generations = Given(0) THEN 2 ELSE d.generations.value

\* status || "unknown"
OrUnknown(status) == IF status = "absent" THEN "unknown" ELSE status

WireChildSex_AsGiven(childSex) == childSex

\* data.childSex === "unknown" ? "male" : data.childSex
WireChildSex(childSex) == IF childSex = "unknown" THEN "male" ELSE childSex

\* the body of the POST, as JSON.stringify leaves it
HookRequestBody(d) ==
    LET generations == Generations(d)
        parent1Status == IF generations = 3
                         THEN OrUnknown(d.maternalGrandmotherStatus)
                         ELSE d.fatherStatus
        parent2Status == d.motherStatus
        grandparent(status) == IF generations = 3
                               THEN StatusObject(OrUnknown(status))
                               ELSE Missing
    IN  [inheritance_type |-> d.inheritancePattern,
         parent1 |-> StatusObject(parent1Status),
         parent2 |-> StatusObject(parent2Status),
         child_sex |-> WireChildSex(d.childSex),
         observed_child_outcome |-> d.observed_child_outcome,
         generations |-> Given(generations),
         maternal_grandmother |-> grandparent(d.maternalGrandmotherStatus),
         maternal_grandfather |-> grandparent(d.maternalGrandfatherStatus),
         paternal_grandmother |-> grandparent(d.paternalGrandmotherStatus),
         paternal_grandfather |-> grandparent(d.paternalGrandfatherStatus)]

(* api.calculations.calculate.input: the zod schema of the body.  An issue *)
(* carries zod's message and the path of the field; the issues come in the *)
(* order of the schema's keys.                                             *)

NoIssue == [none |-> TRUE]
Issue(message, path) == [message |-> message, path |-> path]

\* z.enum(allowed), .optional() or not
EnumIssue(value, allowed, path, optional) ==
    IF value = "absent"
    THEN IF optional THEN NoIssue ELSE Issue("Required", path)
    ELSE IF value \notin allowed THEN Issue("Invalid enum value", path)
    ELSE NoIssue

\* z.object({ status: z.enum([...]) }), .optional() or not
StatusObjectIssue(object, path, optional) ==
    IF object = Missing
    THEN IF optional THEN NoIssue ELSE Issue("Required", path)
    ELSE EnumIssue(object.status, memberStatuses, path \o <<"status">>, FALSE)

GenerationsIssue_NoUpperBound(generations) ==
    IF generations = Absent THEN NoIssue
    ELSE IF generations.value < 2
    THEN Issue("Number must be greater than or equal to 2", <<"generations">>)
    ELSE NoIssue

\* z.number().int().min(2).max(3).optional().default(2)
GenerationsIssue(generations) ==
    IF generations = Absent THEN NoIssue
    ELSE IF generations.value < 2
    THEN Issue("Number must be greater than or equal to 2", <<"generations">>)
    ELSE IF generations.value > 3
    THEN Issue("Number must be less than or equal to 3", <<"generations">>)
    ELSE NoIssue

ChildSexIssue_AnySex(child_sex) == EnumIssue(child_sex, sexes, <<"child_sex">>, FALSE)

\* z.enum(['male','female'])
ChildSexIssue(child_sex) == EnumIssue(child_sex, {"male", "female"}, <<"child_sex">>, FALSE)

ZodIssues(body) ==
    <<EnumIssue(body.inheritance_type, inheritancePatterns, <<"inheritance_type">>, FALSE),
      StatusObjectIssue(body.parent1, <<"parent1">>, FALSE),
      StatusObjectIssue(body.parent2, <<"parent2">>, FALSE),
      ChildSexIssue(body.child_sex),
      EnumIssue(body.observed_child_outcome, {"affected", "unaffected", "unknown"},
                <<"observed_child_outcome">>, TRUE),
      GenerationsIssue(body.generations),
      StatusObjectIssue(body.maternal_grandmother, <<"maternal_grandmother">>, TRUE),
      StatusObjectIssue(body.maternal_grandfather, <<"maternal_grandfather">>, TRUE),
      StatusObjectIssue(body.paternal_grandmother, <<"paternal_grandmother">>, TRUE),
      StatusObjectIssue(body.paternal_grandfather, <<"paternal_grandfather">>, TRUE)>>

\* err.errors[0], or NoIssue when parse returns
FirstIssue(body) ==
    LET issues == ZodIssues(body)
        bad == {i \in DOMAIN issues : issues[i] # NoIssue}
    IN  IF bad = {} THEN NoIssue
        ELSE issues[CHOOSE i \in bad : \A j \in bad : i <= j]

\* what parse returns: the body with the default of generations filled in
ZodParse(body) ==
    [body EXCEPT !.generations = IF @ = Absent THEN Given(2) ELSE @]

\* the body the handler posts to the Python service
ServiceBody(input) ==
    [inheritance_type |-> input.inheritance_type,
     parent1 |-> input.parent1,
     parent2 |-> input.parent2,
     child_sex |-> input.child_sex,
     observed_child_outcome |-> IF input.observed_child_outcome = "absent"
                                THEN "null" ELSE input.observed_child_outcome]

\* what the Python service can answer with status OK: two results of the
\* documented shape, and a body without a risk
ServiceResults ==
    {[risk |-> [min |-> Rat(1, 4), max |-> Rat(1, 4), confidence |-> "high",
                bayesian_update |-> Null],
      explanation |-> "service explanation"],
     [risk |-> [min |-> Zero, max |-> Half, confidence |-> "low",
                bayesian_update |-> Null],
      explanation |-> "service explanation"],
     [detail |-> "no risk"]}

Respond(status, body) == [status |-> status, body |-> body]

\* path.join(".")
RECURSIVE Join(_)
Join(path) ==
    IF Len(path) = 1 THEN path[1] ELSE path[1] \o "." \o Join(Tail(path))

\* the handler, up to its await of the service: parse the body, then either
\* answer 400 from the catch block or post to the service
HandleRequest ==
    /\ pc \in {"awaiting", "external"}
    /\ request # NoRequest
    /\ handler = "idle"
    /\ LET issue == FirstIssue(request)
       IN  IF issue # NoIssue
           THEN /\ response' = Respond(400, [message |-> issue.message,
                                                  field |-> Join(issue.path)])
                /\ handler' = "done"
                /\ UNCHANGED service
           ELSE /\ service' = [service EXCEPT !.calls = @ + 1,
                                                !.body = ServiceBody(ZodParse(request))]
                /\ handler' = "awaiting_service"
                /\ UNCHANGED response
    /\ UNCHANGED <<data, result, pc, caught, request>>

\* the service call throws, answers not OK or with an unreadable body: the
\* catch block answers 500
ServiceFails_Unanswered ==
    /\ handler = "awaiting_service"
    /\ \E failure \in {"threw", "not ok", "unreadable"} :
           service' = [service EXCEPT !.answer = failure]
    /\ handler' = "done"
    /\ UNCHANGED <<data, result, pc, caught, request, response>>

ServiceFails ==
    /\ handler = "awaiting_service"
    /\ \E failure \in {"threw", "not ok", "unreadable"} :
           service' = [service EXCEPT !.answer = failure]
    /\ response' = Respond(500, [message |-> "Internal server error"])
    /\ handler' = "done"
    /\ UNCHANGED <<data, result, pc, caught, request>>

\* the service answers OK: its JSON is passed on with status 200
ServiceAnswers ==
    /\ handler = "awaiting_service"
    /\ \E pythonResult \in ServiceResults :
           /\ service' = [service EXCEPT !.answer = "ok", !.result = pythonResult]
           /\ response' = Respond(200, pythonResult)
    /\ handler' = "done"
    /\ UNCHANGED <<data, result, pc, caught, request>>

\* the catch block of the mutation: the local engine on the same data
OnCatch_Rethrow(d, e) == [pc |-> "rejected", caught |-> e, result |-> NoResult]

OnCatch(d, e) == [pc |-> "resolved", caught |-> e, result |-> calculateLocalRisk(d)]

\* the value the mutation returns from the service's result
FromService(pythonResult) ==
    LET min == pythonResult.risk.min
        max == pythonResult.risk.max
    IN  [riskPercentage |-> RoundPct(Mul(Add(min, max), Half)),
         riskRange |-> [min |-> RoundPct(min), max |-> RoundPct(max), decimals |-> 0],
         confidence |-> pythonResult.risk.confidence,
         explanation |-> pythonResult.explanation,
         bayesianUpdate |-> pythonResult.risk.bayesian_update]

Settle(outcome) ==
    /\ pc' = outcome.pc
    /\ caught' = outcome.caught
    /\ result' = outcome.result

\* mutationFn, up to its await of fetch
Mutate ==
    /\ pc = "mutate"
    /\ request' = HookRequestBody(data)
    /\ pc' = "awaiting"
    /\ UNCHANGED <<data, result, caught, handler, service, response>>

\* fetch throws: the server was not reached
FetchRejects ==
    /\ pc = "awaiting"
    /\ handler = "idle"
    /\ request' = NoRequest
    /\ Settle(OnCatch(data, "fetch failed"))
    /\ UNCHANGED <<data, handler, service, response>>

\* the response arrives: not OK, unreadable, without a risk, or a result
Receive ==
    /\ pc = "awaiting"
    /\ response # NoResponse
    /\ IF response.status # 200
       THEN Settle(OnCatch(data, "Backend calculation failed"))
       ELSE \/ Settle(OnCatch(data, "body unreadable"))
            \/ IF "risk" \in DOMAIN response.body
               THEN Settle([pc |-> "resolved", caught |-> "none",
                            result |-> FromService(response.body)])
               ELSE Settle(OnCatch(data, "TypeError"))
    /\ UNCHANGED <<data, request, handler, service, response>>

\* INITIAL_DATA of the calculator form
InitialData ==
    [inheritancePattern |-> "autosomal_recessive",
     motherStatus |-> "carrier",
     fatherStatus |-> "carrier",
     childSex |-> "unknown",
     observed_child_outcome |-> "absent",
     generations |-> Absent,
     maternalGrandmotherStatus |-> "absent",
     maternalGrandfatherStatus |-> "absent",
     paternalGrandmotherStatus |-> "absent",
     paternalGrandfatherStatus |-> "absent"]

\* bodies another client can post: a valid one, and it with one field left
\* out or out of its type
ValidBody ==
    [inheritance_type |-> "x_linked",
     parent1 |-> StatusObject("carrier"),
     parent2 |-> StatusObject("unknown"),
     child_sex |-> "female",
     observed_child_outcome |-> "absent",
     generations |-> Absent,
     maternal_grandmother |-> Missing,
     maternal_grandfather |-> Missing,
     paternal_grandmother |-> Missing,
     paternal_grandfather |-> Missing]

RawBodies ==
    {ValidBody,
     [ValidBody EXCEPT !.inheritance_type = "absent"],
     [ValidBody EXCEPT !.parent1 = Missing],
     [ValidBody EXCEPT !.parent2 = StatusObject("absent")],
     [ValidBody EXCEPT !.child_sex = "absent"],
     [ValidBody EXCEPT !.child_sex = "unknown"],
     [ValidBody EXCEPT !.observed_child_outcome = "other"],
     [ValidBody EXCEPT !.paternal_grandfather = StatusObject("other")]}
    \cup {[ValidBody EXCEPT !.generations = g] : g \in GenerationValues}

ApiInit ==
    /\ result = NoResult
    /\ caught = "none"
    /\ handler = "idle"
    /\ service = NoCall
    /\ response = NoResponse
    /\ \/ /\ pc = "mutate"
          /\ data \in HookInputs
          /\ request = NoRequest
       \/ /\ pc = "external"
          /\ data = InitialData
          /\ request \in RawBodies

ApiNext ==
    \/ Mutate
    \/ FetchRejects
    \/ HandleRequest
    \/ ServiceFails
    \/ ServiceAnswers
    \/ Receive

ApiSpec == ApiInit /\ [][ApiNext]_vars

\* the handler runs once the request has arrived, and the await of the
\* service call always settles: an answer, an error or fetch's timeout
ApiFairSpec ==
    /\ ApiSpec
    /\ WF_vars(HandleRequest)
    /\ WF_vars(ServiceFails \/ ServiceAnswers)

-----------------------------------------------------------------------------
(* The three-generation joint genotype model: grandparent, parent and      *)
(* child.  A genotype is the number of disease alleles carried: 0, 1 or 2  *)
(* for autosomal patterns and for females under x_linked, 0 or 1 for males *)
(* under x_linked.  Weights are whole numbers over a denominator that is   *)
(* the same for every joint state of one pedigree; a mass is a sum of      *)
(* weights plus a number of epsilon floors.                                *)

\* the population allele frequencies tried: 1/n
AlleleDenominators == {10, 50, 100}

Pedigrees ==
    [inheritance_type : inheritancePatterns,
     grandparent : memberStatuses,
     parent : memberStatuses,
     child : memberStatuses,
     grandparent_sex : {"male", "female"},
     parent_sex : {"male", "female"},
     child_sex : {"male", "female"},
     allele_denominator : AlleleDenominators]

Hemizygous(pattern, sex) == pattern = "x_linked" /\ sex = "male"

Genotypes(pattern, sex) == IF Hemizygous(pattern, sex) THEN 0..1 ELSE 0..2

\* an observed status keeps the genotypes it is consistent with
ConsistentWithStatus(pattern, sex, status, g) ==
    IF status = "unknown" THEN TRUE
    ELSE IF Hemizygous(pattern, sex)
    THEN (status = "affected" /\ g = 1) \/ (status = "unaffected" /\ g = 0)
    ELSE IF pattern = "autosomal_dominant"
    THEN \/ status = "affected" /\ g >= 1
         \/ status = "carrier" /\ g = 1
         \/ status = "unaffected" /\ g = 0
    ELSE \/ status = "affected" /\ g = 2
         \/ status = "carrier" /\ g = 1
         \/ status = "unaffected" /\ g = 0

AffectedPhenotype(pattern, sex, g) ==
    IF Hemizygous(pattern, sex) THEN g = 1
    ELSE IF pattern = "autosomal_dominant" THEN g >= 1
    ELSE g = 2

\* an allele drawn from the population: the disease allele (b = 1) with
\* weight 1 of n, the normal allele with weight n - 1
PopulationAllele(b, n) == IF b = 1 THEN 1 ELSE n - 1

\* the prior of a genotype with no status and no prior given
GenotypePrior(pattern, sex, g, n) ==
    IF Hemizygous(pattern, sex) THEN PopulationAllele(g, n)
    ELSE CASE g = 0 -> PopulationAllele(0, n) * PopulationAllele(0, n)
           [] g = 1 -> 2 * PopulationAllele(0, n) * PopulationAllele(1, n)
           [] g = 2 -> PopulationAllele(1, n) * PopulationAllele(1, n)

\* the allele the modelled parent passes on (a = 1: the disease allele),
\* weight of 2
OwnAllele(pattern, fromSex, from, toSex, a) ==
    IF Hemizygous(pattern, fromSex)
    THEN IF toSex = "male"
         THEN IF a = 0 THEN 2 ELSE 0
         ELSE IF a = from THEN 2 ELSE 0
    ELSE IF a = 1 THEN from ELSE 2 - from

OtherAllele_Carrier(pattern, fromSex, toSex, b, n) ==
    IF pattern = "x_linked" /\ toSex = "male" /\ fromSex = "female"
    THEN IF b = 0 THEN n ELSE 0
    ELSE IF b = 1 THEN n \div 2 ELSE n - (n \div 2)

\* the allele the other, unmodelled parent passes on, weight of n
OtherAllele(pattern, fromSex, toSex, b, n) ==
    IF pattern = "x_linked" /\ toSex = "male" /\ fromSex = "female"
    THEN IF b = 0 THEN n ELSE 0
    ELSE PopulationAllele(b, n)

\* the Mendelian transmission kernel, weight of 2n
Transmission(pattern, fromSex, from, toSex, to, n) ==
    LET ways == {w \in (0..1) \X (0..1) : w[1] + w[2] = to}
        weight(w) == OwnAllele(pattern, fromSex, from, toSex, w[1])
                         * OtherAllele(pattern, fromSex, toSex, w[2], n)
    IN  (IF <<0, 0>> \in ways THEN weight(<<0, 0>>) ELSE 0)
        + (IF <<0, 1>> \in ways THEN weight(<<0, 1>>) ELSE 0)
        + (IF <<1, 0>> \in ways THEN weight(<<1, 0>>) ELSE 0)
        + (IF <<1, 1>> \in ways THEN weight(<<1, 1>>) ELSE 0)

JointStates(ped) ==
    Genotypes(ped.inheritance_type, ped.grandparent_sex)
        \X Genotypes(ped.inheritance_type, ped.parent_sex)
        \X Genotypes(ped.inheritance_type, ped.child_sex)

Indicator(b) == IF b THEN 1 ELSE 0

\* grandparent prior x transmission to the parent x transmission to the
\* child, zero where an observed status is contradicted
JointWeight(ped, s) ==
    LET pattern == ped.inheritance_type
        n == ped.allele_denominator
    IN  GenotypePrior(pattern, ped.grandparent_sex, s[1], n)
        * Indicator(ConsistentWithStatus(pattern, ped.grandparent_sex, ped.grandparent, s[1]))
        * Transmission(pattern, ped.grandparent_sex, s[1], ped.parent_sex, s[2], n)
        * Indicator(ConsistentWithStatus(pattern, ped.parent_sex, ped.parent, s[2]))
        * Transmission(pattern, ped.parent_sex, s[2], ped.child_sex, s[3], n)
        * Indicator(ConsistentWithStatus(pattern, ped.child_sex, ped.child, s[3]))

\* a sum of weights and of epsilon floors
Mass(units, floors) == [units |-> units, floors |-> floors]

\* max(weight, epsilon)
Floored(weight) == IF weight = 0 THEN Mass(0, 1) ELSE Mass(weight, 0)

RECURSIVE MassOf(_, _)
MassOf(ped, states) ==
    IF states = {} THEN Mass(0, 0)
    ELSE LET s == CHOOSE t \in states : TRUE
             rest == MassOf(ped, states \ {s})
             cell == Floored(JointWeight(ped, s))
         IN  Mass(rest.units + cell.units, rest.floors + cell.floors)

Normalizer_Unfloored(ped) == Mass(MassOf(ped, JointStates(ped)).units, 0)

\* the sum the joint distribution is divided by
Normalizer(ped) == MassOf(ped, JointStates(ped))

\* a probability: a mass over the normalizer
Normalized(mass, ped) == [num |-> mass, den |-> Normalizer(ped)]

\* the joint posterior summed over the other two generations
Marginal(ped, generation, sex) ==
    [g \in Genotypes(ped.inheritance_type, sex) |->
        Normalized(MassOf(ped, {s \in JointStates(ped) : s[generation] = g}), ped)]

compute_risk(ped) ==
    LET risk == Normalized(MassOf(ped, {s \in JointStates(ped) :
                    AffectedPhenotype(ped.inheritance_type, ped.child_sex, s[3])}), ped)
    IN  [model |-> "three_generation",
         min |-> risk,
         max |-> risk,
         marginal_posteriors |->
             [grandparent |-> Marginal(ped, 1, ped.grandparent_sex),
              parent |-> Marginal(ped, 2, ped.parent_sex),
              child |-> Marginal(ped, 3, ped.child_sex)]]

ThreeGenInit ==
    /\ pc = "three_generation"
    /\ data \in Pedigrees
    /\ result = NoResult
    /\ caught = "none"
    /\ request = NoRequest
    /\ handler = "idle"
    /\ service = NoCall
    /\ response = NoResponse

\* result = model.compute_risk(pedigree, params)
ComputeRisk ==
    /\ pc = "three_generation"
    /\ result = NoResult
    /\ result' = compute_risk(data)
    /\ UNCHANGED <<data, api>>

ThreeGenNext == ComputeRisk

ThreeGenSpec == ThreeGenInit /\ [][ThreeGenNext]_vars

-----------------------------------------------------------------------------
(* The Calculator page: the form, the observed outcome selected in the     *)
(* What-If card, the step shown, and the second useCalculateRisk mutation  *)
(* (calculateWithObservation) with its variables, its pending flag (pc)    *)
(* and its data (reversedResult).                                          *)

\* the form values tried
FormValues ==
    [inheritancePattern : inheritancePatterns,
     motherStatus : {"carrier", "unknown"},
     fatherStatus : {"carrier", "unaffected"},
     childSex : sexes]

\* the options of the Observed Child Outcome select
OutcomeOptions == {"unknown", "affected", "unaffected"}

\* dataWithObservation
DataWithObservation(form, observedOutcome) ==
    [inheritancePattern |-> form.inheritancePattern,
     motherStatus |-> form.motherStatus,
     fatherStatus |-> form.fatherStatus,
     childSex |-> IF form.childSex = "unknown" THEN "male" ELSE form.childSex,
     observed_child_outcome |-> observedOutcome]

\* the result step after a first calculation, nothing observed yet
PageInit ==
    /\ pc = "page"
    /\ \E form \in FormValues :
           data = [form |-> form, observedOutcome |-> "unknown", step |-> "result"]
    /\ result = NoResult
    /\ request = NoRequest
    /\ caught = "none"
    /\ handler = "idle"
    /\ service = NoCall
    /\ response = NoResponse

\* onChange of the select: setObservedOutcome(e.target.value)
SelectOutcome ==
    /\ pc \in {"page", "page_recalculating"}
    /\ data.step = "result"
    /\ \E outcome \in OutcomeOptions :
           data' = [data EXCEPT !.observedOutcome = outcome]
    /\ UNCHANGED <<result, api>>

\* disabled={observedOutcome === "unknown" || isRecalculating}
RecalculateDisabled == data.observedOutcome = "unknown" \/ pc = "page_recalculating"

\* if (observedOutcome === "unknown") return
RecalculateReturnsEarly == data.observedOutcome = "unknown"

\* handleRecalculateParentRisk: the mutation starts, its data is reset
ClickRecalculate ==
    /\ pc \in {"page", "page_recalculating"}
    /\ data.step = "result"
    /\ ~RecalculateDisabled
    /\ ~RecalculateReturnsEarly
    /\ request' = DataWithObservation(data.form, data.observedOutcome)
    /\ result' = NoResult
    /\ pc' = "page_recalculating"
    /\ data' = [data EXCEPT !.step = "result"]
    /\ UNCHANGED <<caught, handler, service, response>>

\* the mutation settles: the service's result or the local fallback
RecalculationCompletes ==
    /\ pc = "page_recalculating"
    /\ \/ /\ result' = calculateLocalRisk(request)
          /\ caught' = "Backend calculation failed"
       \/ /\ \E pythonResult \in {r \in ServiceResults : "risk" \in DOMAIN r} :
                 result' = FromService(pythonResult)
          /\ caught' = "none"
    /\ pc' = "page"
    /\ UNCHANGED <<data, request, handler, service, response>>

\* Edit Parameters / Start Over: setStep("input")
EditParameters ==
    /\ pc \in {"page", "page_recalculating"}
    /\ data.step = "result"
    /\ data' = [data EXCEPT !.step = "input"]
    /\ UNCHANGED <<result, api>>

\* Calculate Risk: onSuccess: () => setStep("result")
SubmitForm ==
    /\ pc \in {"page", "page_recalculating"}
    /\ data.step = "input"
    /\ data' = [data EXCEPT !.step = "result"]
    /\ UNCHANGED <<result, api>>

PageNext ==
    \/ SelectOutcome
    \/ ClickRecalculate
    \/ RecalculationCompletes
    \/ EditParameters
    \/ SubmitForm

PageSpec == PageInit /\ [][PageNext]_vars

-----------------------------------------------------------------------------
(* Properties of the engine.  Called holds once the call has returned on   *)
(* an input whose pattern and parent statuses are of the vocabulary.       *)

Called == result # NoResult /\ ValidInput(data)

NoObservation == data.observed_child_outcome \in {"absent", "unknown"}

InUnit(x) == Leq(Zero, x) /\ Leq(x, One)

\* C1: for every pattern, mother and father status, child sex and observed
\* outcome, the risk range of the result (the values and the printed
\* percentages) and, when there is one, bayesianUpdate.updated_risk satisfy
\* 0 <= min <= max <= 1.
RiskWithinBounds ==
    Called =>
        /\ InUnit(ForwardRisk(data).min) /\ InUnit(ForwardRisk(data).max)
        /\ Leq(ForwardRisk(data).min, ForwardRisk(data).max)
        /\ 0 <= result.riskRange.min
        /\ result.riskRange.min <= result.riskRange.max
        /\ result.riskRange.max <= 10000
        /\ result.bayesianUpdate # Null =>
              /\ InUnit(result.bayesianUpdate.updated_risk.min)
              /\ InUnit(result.bayesianUpdate.updated_risk.max)
              /\ Leq(result.bayesianUpdate.updated_risk.min,
                     result.bayesianUpdate.updated_risk.max)

\* a proper range: x_linked, sex unspecified, carrier mother, unknown father
RiskWithinBoundsWitness ==
    /\ Called
    /\ data.inheritancePattern = "x_linked" /\ data.childSex = "unknown"
    /\ data.motherStatus = "carrier" /\ data.fatherStatus = "unknown"
    /\ result.riskRange.min < result.riskRange.max
    /\ result.riskRange.max = 5000

\* The transmission table the autosomal recessive claim states
StatedTransmitAR(status) ==
    CASE status = "affected" -> One
      [] status = "carrier" -> Half
      [] status = "unaffected" -> Zero
      [] status = "unknown" -> Rat(51, 10000)

\* C2: under autosomal_recessive with no observed outcome the forward risk
\* is P(father transmits) x P(mother transmits) for all 16 status pairs,
\* with affected 1, carrier 1/2, unaffected 0, unknown 0.0051 for mother and
\* father alike; carrier x carrier is exactly 0.25 for any child sex.
RecessiveForwardRisk ==
    (Called /\ NoObservation /\ data.inheritancePattern = "autosomal_recessive") =>
        LET risk == Mul(StatedTransmitAR(data.fatherStatus),
                        StatedTransmitAR(data.motherStatus))
        IN  /\ ForwardRisk(data) = Exactly(risk)
            /\ result.riskPercentage = RoundPct(risk)
            /\ result.riskRange = RangeText(risk, risk)
            /\ (data.motherStatus = "carrier" /\ data.fatherStatus = "carrier") =>
                   /\ risk = Rat(1, 4)
                   /\ result.riskPercentage = 25
                   /\ result.riskRange = [min |-> 2500, max |-> 2500, decimals |-> 2]

\* an unknown mother with a carrier father: 0.0051 x 0.5, printed 0.26%
RecessiveForwardRiskWitness ==
    /\ Called /\ NoObservation
    /\ data.inheritancePattern = "autosomal_recessive"
    /\ data.motherStatus = "unknown" /\ data.fatherStatus = "carrier"
    /\ ForwardRisk(data).min = Rat(51, 20000)
    /\ result.riskRange.min = 26

\* C3: under autosomal_dominant with no observed outcome, one affected and
\* one unaffected parent (in either order) give exactly 0.5 for any sex.
DominantAffectedUnaffected ==
    (/\ Called /\ NoObservation
     /\ data.inheritancePattern = "autosomal_dominant"
     /\ {data.motherStatus, data.fatherStatus} = {"affected", "unaffected"}) =>
        /\ ForwardRisk(data) = Exactly(Half)
        /\ result.riskPercentage = 50
        /\ result.riskRange = [min |-> 5000, max |-> 5000, decimals |-> 2]

DominantAffectedUnaffectedWitness ==
    /\ Called /\ NoObservation
    /\ data.inheritancePattern = "autosomal_dominant"
    /\ data.motherStatus = "unaffected" /\ data.fatherStatus = "affected"
    /\ data.childSex = "female"
    /\ result.riskPercentage = 50

\* C4: under x_linked with a male child and no observed outcome the risk is
\* exactly 0.5 for a carrier mother and exactly 0 for an unaffected mother,
\* whatever the father's status.
XLinkedMaleRisk ==
    (/\ Called /\ NoObservation
     /\ data.inheritancePattern = "x_linked" /\ data.childSex = "male") =>
        /\ data.motherStatus = "carrier" =>
              /\ ForwardRisk(data) = Exactly(Half)
              /\ result.riskPercentage = 50
              /\ result.riskRange = [min |-> 5000, max |-> 5000, decimals |-> 2]
        /\ data.motherStatus = "unaffected" =>
              /\ ForwardRisk(data) = Exactly(Zero)
              /\ result.riskPercentage = 0
              /\ result.riskRange = [min |-> 0, max |-> 0, decimals |-> 2]

XLinkedMaleRiskWitness ==
    /\ Called /\ NoObservation
    /\ data.inheritancePattern = "x_linked" /\ data.childSex = "male"
    /\ data.motherStatus = "carrier" /\ data.fatherStatus = "affected"
    /\ result.riskPercentage = 50

\* The x_linked tables the female-child claim states
StatedMotherXL(status) ==
    CASE status = "affected" -> One
      [] status = "carrier" -> Half
      [] status = "unaffected" -> Zero
      [] status = "unknown" -> Rat(51, 10000)

StatedFatherToDaughterXL(status) ==
    CASE status = "affected" -> One
      [] status = "unaffected" -> Zero
      [] OTHER -> Rat(1, 2000)

\* C5: under x_linked with a female child and no observed outcome the risk
\* is P_m x P_fd, P_fd being 1 for an affected father, 0 for an unaffected
\* father and the father-affected prior otherwise; an unaffected father
\* gives exactly 0 for every mother status.
XLinkedFemaleRisk ==
    (/\ Called /\ NoObservation
     /\ data.inheritancePattern = "x_linked" /\ data.childSex = "female") =>
        LET risk == Mul(StatedMotherXL(data.motherStatus),
                        StatedFatherToDaughterXL(data.fatherStatus))
        IN  /\ ForwardRisk(data) = Exactly(risk)
            /\ result.riskPercentage = RoundPct(risk)
            /\ result.riskRange = RangeText(risk, risk)
            /\ data.fatherStatus = "unaffected" =>
                   /\ risk = Zero
                   /\ result.riskPercentage = 0
                   /\ result.riskRange = [min |-> 0, max |-> 0, decimals |-> 2]

\* Scenario C: carrier mother, unaffected father, female child
XLinkedFemaleRiskWitness ==
    /\ Called /\ NoObservation
    /\ data.inheritancePattern = "x_linked" /\ data.childSex = "female"
    /\ data.motherStatus = "carrier" /\ data.fatherStatus = "unaffected"
    /\ result.riskPercentage = 0
    /\ ForwardRisk(data).max = Zero

Updated == Called /\ result.bayesianUpdate # Null

\* The forward risk of the input's pattern and sex, recomputed from the
\* probabilities the update returned (parent1 the mother, parent2 the father)
RecomputedRisk ==
    RiskFromTransmission(data.inheritancePattern, data.childSex,
                         result.bayesianUpdate.parent1_carrier_probability,
                         result.bayesianUpdate.parent2_carrier_probability)

\* C6: whenever a reverse update is produced, the forward risk of the same
\* pattern and child sex recomputed from the updated parent probabilities
\* is exactly the update's updated_risk (min and max).
RecomputedRiskIsUpdatedRisk ==
    Updated =>
        /\ RecomputedRisk.min = result.bayesianUpdate.updated_risk.min
        /\ RecomputedRisk.max = result.bayesianUpdate.updated_risk.max

\* C7: whenever a reverse update is produced, a parent whose status is
\* affected keeps posterior 1 and a parent whose status is unaffected keeps
\* posterior 0 (parent1 the mother, parent2 the father).
CertainParentsUnchanged ==
    Updated =>
        /\ data.motherStatus = "affected" =>
               result.bayesianUpdate.parent1_carrier_probability = One
        /\ data.motherStatus = "unaffected" =>
               result.bayesianUpdate.parent1_carrier_probability = Zero
        /\ data.fatherStatus = "affected" =>
               result.bayesianUpdate.parent2_carrier_probability = One
        /\ data.fatherStatus = "unaffected" =>
               result.bayesianUpdate.parent2_carrier_probability = Zero

\* C8: under autosomal_recessive with carrier mother, carrier father and an
\* observed affected child, both posteriors are 1 and the updated risk is
\* 25% (min = max = 0.25), the forward risk unchanged.
ScenarioBUpdatedRisk ==
    (/\ Called
     /\ data.inheritancePattern = "autosomal_recessive"
     /\ data.motherStatus = "carrier" /\ data.fatherStatus = "carrier"
     /\ data.observed_child_outcome = "affected") =>
        /\ result.bayesianUpdate # Null
        /\ result.bayesianUpdate.parent1_carrier_probability = One
        /\ result.bayesianUpdate.parent2_carrier_probability = One
        /\ result.bayesianUpdate.updated_risk = [min |-> Rat(1, 4), max |-> Rat(1, 4)]
        /\ result.bayesianUpdate.updated_risk.min = ForwardRisk(data).min
        /\ result.riskPercentage = 25

\* C9: when observed_child_outcome is absent or 'unknown' the reverse
\* update is a no-op: bayesianUpdate is null and riskPercentage, riskRange,
\* reasoning and explanation are those of the forward calculation.
NoObservationNoUpdate ==
    (Called /\ NoObservation) =>
        /\ result.bayesianUpdate = Null
        /\ result.riskPercentage = Forward(data).riskPercentage
        /\ result.riskRange = Forward(data).riskRange
        /\ result.reasoning = Forward(data).reasoning
        /\ result.explanation = Forward(data).explanation

\* observed 'unknown' on carrier x carrier: the forward 25% stands
NoObservationNoUpdateWitness ==
    /\ Called
    /\ data.observed_child_outcome = "unknown"
    /\ data.inheritancePattern = "autosomal_recessive"
    /\ data.motherStatus = "carrier" /\ data.fatherStatus = "carrier"
    /\ result.bayesianUpdate = Null
    /\ result.riskPercentage = 25
    /\ result.explanation = "AR: both parents transmit"

\* The posterior the observed-affected claim states
StatedPosteriorAffected(status) == IF status = "unaffected" THEN Zero ELSE One

\* C10: under autosomal_recessive with an observed affected child each
\* parent's posterior is 1 unless that parent's status is unaffected, then
\* 0, and updated_risk.min = updated_risk.max = the product of the two
\* posteriors, for all 16 status pairs.
RecessiveAffectedPosteriors ==
    (/\ Called
     /\ data.inheritancePattern = "autosomal_recessive"
     /\ data.observed_child_outcome = "affected") =>
        LET post1 == StatedPosteriorAffected(data.motherStatus)
            post2 == StatedPosteriorAffected(data.fatherStatus)
        IN  /\ result.bayesianUpdate # Null
            /\ result.bayesianUpdate.parent1_carrier_probability = post1
            /\ result.bayesianUpdate.parent2_carrier_probability = post2
            /\ result.bayesianUpdate.updated_risk =
                   [min |-> Mul(post1, post2), max |-> Mul(post1, post2)]

\* an unknown mother's posterior jumps to 1 beside a carrier father
RecessiveAffectedPosteriorsWitness ==
    /\ Called
    /\ data.inheritancePattern = "autosomal_recessive"
    /\ data.observed_child_outcome = "affected"
    /\ data.motherStatus = "unknown" /\ data.fatherStatus = "carrier"
    /\ result.bayesianUpdate # Null
    /\ result.bayesianUpdate.parent1_carrier_probability = One
    /\ result.bayesianUpdate.updated_risk.max = One

\* The posterior the observed-unaffected claim states for one parent
StatedPosteriorUnaffectedAR(status) ==
    CASE status = "unknown" ->
             Div(Mul(Rat(3, 4), Rat(1, 100)),
                 Add(Mul(Rat(3, 4), Rat(1, 100)), Mul(One, Sub(One, Rat(1, 100)))))
      [] status \in {"carrier", "affected"} -> One
      [] status = "unaffected" -> Zero

\* C11: under autosomal_recessive with an observed unaffected child, a
\* parent of unknown status (prior 0.01) gets posterior
\* 0.75 p / (0.75 p + 1.0 (1 - p)), strictly less than the prior; a parent
\* with a definite prior (carrier or affected 1, unaffected 0) keeps it.
RecessiveUnaffectedPosteriors ==
    (/\ Called
     /\ data.inheritancePattern = "autosomal_recessive"
     /\ data.observed_child_outcome = "unaffected") =>
        /\ result.bayesianUpdate # Null
        /\ result.bayesianUpdate.parent1_carrier_probability =
               StatedPosteriorUnaffectedAR(data.motherStatus)
        /\ result.bayesianUpdate.parent2_carrier_probability =
               StatedPosteriorUnaffectedAR(data.fatherStatus)
        /\ data.motherStatus = "unknown" =>
               Less(result.bayesianUpdate.parent1_carrier_probability, Rat(1, 100))
        /\ data.fatherStatus = "unknown" =>
               Less(result.bayesianUpdate.parent2_carrier_probability, Rat(1, 100))

\* an unknown mother drops from 1/100 to 1/133 beside a carrier father
RecessiveUnaffectedPosteriorsWitness ==
    /\ Called
    /\ data.inheritancePattern = "autosomal_recessive"
    /\ data.observed_child_outcome = "unaffected"
    /\ data.motherStatus = "unknown" /\ data.fatherStatus = "carrier"
    /\ result.bayesianUpdate # Null
    /\ result.bayesianUpdate.parent1_carrier_probability = Rat(1, 133)
    /\ result.bayesianUpdate.parent2_carrier_probability = One

\* C12: under x_linked with an observed affected child, for a male child
\* the mother's posterior is 1 for every mother status; for a female child
\* both posteriors are pinned to 1 (parent1 the mother, parent2 the father).
XLinkedAffectedPosteriors ==
    (/\ Called
     /\ data.inheritancePattern = "x_linked"
     /\ data.observed_child_outcome = "affected"
     /\ data.childSex \in {"male", "female"}) =>
        /\ result.bayesianUpdate # Null
        /\ result.bayesianUpdate.parent1_carrier_probability = One
        /\ data.childSex = "female" =>
               result.bayesianUpdate.parent2_carrier_probability = One

\* The mother's prior the x_linked observed-unaffected claim states
StatedPriorXLMother(status) ==
    CASE status = "unknown" -> Rat(1, 100)
      [] status \in {"carrier", "affected"} -> One
      [] status = "unaffected" -> Zero

StatedPosteriorXLMother(status) ==
    LET prior == StatedPriorXLMother(status)
    IN  Div(Mul(Half, prior), Add(Mul(Half, prior), Mul(One, Sub(One, prior))))

\* C13: under x_linked with a male child and an observed unaffected child
\* the mother's posterior is 0.5 p / (0.5 p + 1.0 (1 - p)), p her prior
\* (0.01 if unknown, 1 if carrier or affected, 0 if unaffected), and the
\* father's probability is not changed: an affected father stays at 1, an
\* unaffected father at 0 (parent1 the mother, parent2 the father).
XLinkedUnaffectedMalePosteriors ==
    (/\ Called
     /\ data.inheritancePattern = "x_linked"
     /\ data.observed_child_outcome = "unaffected"
     /\ data.childSex = "male") =>
        /\ result.bayesianUpdate # Null
        /\ result.bayesianUpdate.parent1_carrier_probability =
               StatedPosteriorXLMother(data.motherStatus)
        /\ data.fatherStatus = "affected" =>
               result.bayesianUpdate.parent2_carrier_probability = One
        /\ data.fatherStatus = "unaffected" =>
               result.bayesianUpdate.parent2_carrier_probability = Zero

\* C14: under x_linked with the child's sex unspecified and no observed
\* outcome the range is [min(male, female), max(male, female)] with
\* male = P_m and female = P_m x P_fd, and the point estimate is the
\* midpoint; for every other pattern, or a given sex, min equals max.
UnspecifiedSexRange ==
    (Called /\ NoObservation) =>
        IF data.inheritancePattern = "x_linked" /\ data.childSex = "unknown"
        THEN LET maleRisk == StatedMotherXL(data.motherStatus)
                 femaleRisk == Mul(maleRisk, StatedFatherToDaughterXL(data.fatherStatus))
                 r == ForwardRisk(data)
             IN  /\ {r.min, r.max} = {maleRisk, femaleRisk}
                 /\ Leq(r.min, r.max)
                 /\ r.point = Div(Add(maleRisk, femaleRisk), Rat(2, 1))
                 /\ result.riskRange = RangeText(r.min, r.max)
                 /\ result.riskPercentage = RoundPct(r.point)
        ELSE /\ ForwardRisk(data).min = ForwardRisk(data).max
             /\ result.riskRange.min = result.riskRange.max

\* affected mother, unknown father: 0.05% - 100.00%, point estimate 50%
UnspecifiedSexRangeWitness ==
    /\ Called /\ NoObservation
    /\ data.inheritancePattern = "x_linked" /\ data.childSex = "unknown"
    /\ data.motherStatus = "affected" /\ data.fatherStatus = "unknown"
    /\ result.riskRange = [min |-> 5, max |-> 10000, decimals |-> 2]
    /\ result.riskPercentage = 50

\* a result that reports a failure instead of a risk
ReportsFailure(r) == "riskPercentage" \notin DOMAIN r

\* C15: a calculation whose inheritance pattern or whose parent status is
\* not one of the recognized values yields a reported validation failure,
\* never a risk computed as if the value were a default.
UnrecognizedValueReported ==
    (result # NoResult /\ pc = "local" /\ ~ValidInput(data)) => ReportsFailure(result)

\* The fields of a posted body that are not of the documented type
OffendingFields(body) ==
    {f \in {"inheritance_type", "parent1", "parent1.status", "parent2",
            "parent2.status", "child_sex", "observed_child_outcome", "generations",
            "maternal_grandmother.status", "maternal_grandfather.status",
            "paternal_grandmother.status", "paternal_grandfather.status"} :
        CASE f = "inheritance_type" -> body.inheritance_type \notin inheritancePatterns
          [] f = "parent1" -> body.parent1 = Missing
          [] f = "parent1.status" ->
                 body.parent1 # Missing /\ body.parent1.status \notin memberStatuses
          [] f = "parent2" -> body.parent2 = Missing
          [] f = "parent2.status" ->
                 body.parent2 # Missing /\ body.parent2.status \notin memberStatuses
          [] f = "child_sex" -> body.child_sex \notin {"male", "female"}
          [] f = "observed_child_outcome" ->
                 body.observed_child_outcome \notin observedOutcomes
          [] f = "generations" ->
                 body.generations # Absent /\ body.generations.value \notin {2, 3}
          [] f = "maternal_grandmother.status" ->
                 /\ body.maternal_grandmother # Missing
                 /\ body.maternal_grandmother.status \notin memberStatuses
          [] f = "maternal_grandfather.status" ->
                 /\ body.maternal_grandfather # Missing
                 /\ body.maternal_grandfather.status \notin memberStatuses
          [] f = "paternal_grandmother.status" ->
                 /\ body.paternal_grandmother # Missing
                 /\ body.paternal_grandmother.status \notin memberStatuses
          [] f = "paternal_grandfather.status" ->
                 /\ body.paternal_grandfather # Missing
                 /\ body.paternal_grandfather.status \notin memberStatuses}

\* C16: a posted body with an unknown enum value or a missing required
\* field is answered with status 400 carrying a message and the path of an
\* offending field, and the Python risk service is never called for it.
InvalidBodyRejectedBeforeService ==
    (request # NoRequest /\ OffendingFields(request) # {}) =>
        /\ service = NoCall
        /\ handler \in {"idle", "done"}
        /\ handler = "done" =>
               /\ response.status = 400
               /\ response.body.message \in {"Required", "Invalid enum value",
                      "Number must be greater than or equal to 2",
                      "Number must be less than or equal to 3"}
               /\ response.body.field \in OffendingFields(request)

\* a body without parent1 has been answered: 400, Required, parent1
InvalidBodyRejectedBeforeServiceWitness ==
    /\ pc = "external"
    /\ request = [ValidBody EXCEPT !.parent1 = Missing]
    /\ handler = "done"
    /\ response = Respond(400, [message |-> "Required", field |-> "parent1"])
    /\ service = NoCall

\* a generation count that is given and is neither 2 nor 3
OutsideTwoThree(generations) ==
    generations # Absent /\ generations.value \notin {2, 3}

\* C17: a request whose generation count is outside {2,3} is rejected as a
\* validation error (the service is not called for it, the handler answers
\* 400 on generations, the mutation does not resolve with a result); a
\* count of 2 or 3, or none, is accepted.
GenerationsOutsideRejected ==
    /\ (pc = "external" /\ OutsideTwoThree(request.generations)) =>
           /\ service = NoCall
           /\ handler = "done" =>
                  /\ response.status = 400
                  /\ response.body.field = "generations"
    /\ (pc = "external" /\ ~OutsideTwoThree(request.generations)
            /\ OffendingFields(request) = {} /\ handler = "done") =>
           response.status # 400
    /\ (pc # "external" /\ OutsideTwoThree(data.generations)) =>
           /\ service = NoCall
           /\ handler = "done" =>
                  /\ response.status = 400
                  /\ pc # "resolved"

\* the data of a calculation with the generation count and the maternal
\* grandmother's status replaced
WithGenerations(d, generations, status) ==
    [d EXCEPT !.generations = generations, !.maternalGrandmotherStatus = status]

\* C18: the generation count requested selects the model along the whole
\* path: the body the handler posts to the risk service carries the count
\* the request was validated with (3 for a three-generation request, 2
\* for a request of 2 or none), and a three-generation calculation settled
\* by the local fallback is not the two-generation result of the parents.
GenerationsSelectModel ==
    /\ (request # NoRequest /\ service.calls > 0) =>
           /\ "generations" \in DOMAIN service.body
           /\ Given(service.body.generations) = ZodParse(request).generations
    /\ (pc = "resolved" /\ caught # "none" /\ data.generations = Given(3)
            /\ data.maternalGrandmotherStatus = "carrier"
            /\ data.motherStatus = "unknown" /\ ValidInput(data)) =>
           result # calculateLocalRisk(WithGenerations(data, Given(2), "absent"))

\* C19: the mutation never rejects because of the backend: when the fetch
\* throws, the response is not OK or its body cannot be read, the mutation
\* resolves with calculateLocalRisk of the data it was called with.
FallbackOnBackendFailure ==
    /\ pc # "rejected"
    /\ caught # "none" => pc = "resolved"
    /\ (pc = "resolved" /\ (\/ response = NoResponse
                            \/ response.status # 200
                            \/ caught = "body unreadable")) =>
           result = calculateLocalRisk(data)

\* the handler answered 500 and the mutation resolved with the local 25%
FallbackOnBackendFailureWitness ==
    /\ pc = "resolved"
    /\ response # NoResponse
    /\ response.status = 500
    /\ data.inheritancePattern = "autosomal_recessive"
    /\ data.motherStatus = "carrier" /\ data.fatherStatus = "carrier"
    /\ NoObservation
    /\ result = calculateLocalRisk(data)
    /\ result.riskPercentage = 25

\* the order of the labels high > medium > low, in either spelling
ConfidenceRank(label) ==
    CASE label \in {"High", "high"} -> 3
      [] label \in {"Medium", "medium"} -> 2
      [] OTHER -> 1

UnknownParents(d) ==
    Cardinality({role \in {"mother", "father"} :
        IF role = "mother" THEN d.motherStatus = "unknown"
        ELSE d.fatherStatus = "unknown"})

\* C20: the confidence label follows the number of unknown inputs: with
\* both parents of known status it is high, with unknown parents it is no
\* higher than for the same calculation with fewer unknown parents, and
\* with both parents unknown it is strictly lower than high.
ConfidenceReflectsUnknowns ==
    (Called /\ pc = "local") =>
        /\ UnknownParents(data) = 0 => ConfidenceRank(result.confidence) = 3
        /\ UnknownParents(data) = 2 => ConfidenceRank(result.confidence) < 3
        /\ \A m, f \in memberStatuses :
               LET other == [data EXCEPT !.motherStatus = m, !.fatherStatus = f]
               IN  UnknownParents(other) < UnknownParents(data) =>
                       ConfidenceRank(result.confidence) <=
                           ConfidenceRank(calculateLocalRisk(other).confidence)

\* the same calculation asked for a male child
AsMale(d) == [d EXCEPT !.childSex = "male"]

\* C21: for the autosomal patterns a child of unknown sex is treated as a
\* male child: every request the client sends carries child_sex male or
\* female (unknown is sent as male), and for autosomal_recessive and
\* autosomal_dominant the local result for child sex unknown equals the
\* result for child sex male, for all parent statuses and outcomes.
UnknownSexTreatedAsMale ==
    /\ (pc \in {"awaiting", "resolved"} /\ request # NoRequest) =>
           /\ request.child_sex \in {"male", "female"}
           /\ data.childSex = "unknown" => request.child_sex = "male"
           /\ data.childSex # "unknown" => request.child_sex = data.childSex
    /\ (/\ pc # "external"
        /\ data.inheritancePattern \in {"autosomal_recessive", "autosomal_dominant"}
        /\ data.childSex = "unknown") =>
           /\ calculateLocalRisk(data) = calculateLocalRisk(AsMale(data))
           /\ (pc = "resolved" /\ caught # "none") =>
                  result = calculateLocalRisk(AsMale(data))

\* a recessive calculation for a child of unknown sex was posted as male and
\* settled by the local engine with the male result
UnknownSexTreatedAsMaleWitness ==
    /\ pc = "resolved"
    /\ caught = "Backend calculation failed"
    /\ data.inheritancePattern = "autosomal_recessive"
    /\ data.motherStatus = "carrier" /\ data.fatherStatus = "unknown"
    /\ data.childSex = "unknown"
    /\ data.observed_child_outcome = "affected"
    /\ request.child_sex = "male"
    /\ result = calculateLocalRisk(AsMale(data))

RECURSIVE SumOfNumerators(_, _)
SumOfNumerators(distribution, genotypes) ==
    IF genotypes = {} THEN Mass(0, 0)
    ELSE LET g == CHOOSE h \in genotypes : TRUE
             rest == SumOfNumerators(distribution, genotypes \ {g})
         IN  Mass(rest.units + distribution[g].num.units,
                  rest.floors + distribution[g].num.floors)

\* a distribution over one denominator, not zero, whose values add up to it
SumsToOne(distribution) ==
    \E den \in {distribution[g].den : g \in DOMAIN distribution} :
        /\ \A g \in DOMAIN distribution : distribution[g].den = den
        /\ den.units + den.floors > 0
        /\ SumOfNumerators(distribution, DOMAIN distribution) = den

\* C23: in the three-generation model, for every pattern, every status of
\* grandparent, parent and child and every sex, the marginal posterior
\* distribution of each of the three generations sums to 1.
MarginalsSumToOne ==
    (pc = "three_generation" /\ result # NoResult) =>
        /\ SumsToOne(result.marginal_posteriors.grandparent)
        /\ SumsToOne(result.marginal_posteriors.parent)
        /\ SumsToOne(result.marginal_posteriors.child)

\* an x_linked pedigree of an unknown grandmother, a carrier mother and an
\* affected son has been computed: the son is affected with probability 1
\* up to the floors, and the three marginals sum to 1
MarginalsSumToOneWitness ==
    /\ pc = "three_generation" /\ result # NoResult
    /\ data.inheritance_type = "x_linked"
    /\ data.grandparent = "unknown" /\ data.parent = "carrier" /\ data.child = "affected"
    /\ data.grandparent_sex = "female" /\ data.parent_sex = "female"
    /\ data.child_sex = "male"
    /\ result.marginal_posteriors.child[1].num.units = result.min.den.units
    /\ result.min.den.floors > 0
    /\ SumsToOne(result.marginal_posteriors.parent)

\* Scenario D has been computed: a carrier grandmother, a carrier mother
\* and a child of unknown status under autosomal_recessive
ScenarioD ==
    /\ pc = "three_generation" /\ result # NoResult
    /\ data.inheritance_type = "autosomal_recessive"
    /\ data.grandparent = "carrier" /\ data.parent = "carrier" /\ data.child = "unknown"
    /\ data.grandparent_sex = "female" /\ data.parent_sex = "female"

\* the probability equals k / m, the epsilon floors left aside
EqualsFraction(probability, k, m) ==
    probability.num.units * m = probability.den.units * k

\* C24 as stated: in Scenario D the marginal probability that the child is
\* affected is the two-generation carrier x carrier value 0.25.
ScenarioDQuarter ==
    ScenarioD =>
        /\ EqualsFraction(result.min, 1, 4)
        /\ EqualsFraction(result.marginal_posteriors.child[2], 1, 4)

\* C24: in Scenario D the marginal probability that the child is affected
\* is one half (the carrier parent transmits) times the population allele
\* frequency 1/n (the other, unmodelled parent transmits), up to the
\* epsilon floors.
ScenarioDHalfAlleleFrequency ==
    ScenarioD =>
        /\ EqualsFraction(result.min, 1, 2 * data.allele_denominator)
        /\ result.marginal_posteriors.child[2] = result.min
        /\ result.max = result.min

\* Scenario D at allele frequency 1/100: 19800 of 3960000, that is 0.005
ScenarioDHalfAlleleFrequencyWitness ==
    /\ ScenarioD
    /\ data.allele_denominator = 100
    /\ data.child_sex = "male"
    /\ result.min.num.units = 19800
    /\ result.min.den.units = 3960000

\* C25: parent1 denotes the mother and parent2 the father throughout: the
\* posted body carries the mother's status as parent1 and the father's as
\* parent2, and in a reverse update settled by the local engine for an
\* observed affected child parent1_carrier_probability (shown as Mother)
\* is the mother's value (0 if she is unaffected, else 1) and
\* parent2_carrier_probability (shown as Father) the father's.
ParentOneIsMother ==
    /\ (pc \in {"awaiting", "resolved"} /\ request # NoRequest
            /\ Generations(data) = 2) =>
           /\ request.parent1.status = data.motherStatus
           /\ request.parent2.status = data.fatherStatus
    /\ (/\ pc = "resolved" /\ caught # "none" /\ ValidInput(data)
        /\ data.observed_child_outcome = "affected"
        /\ result.bayesianUpdate # Null) =>
           /\ result.bayesianUpdate.parent1_carrier_probability =
                  (IF data.motherStatus = "unaffected" THEN Zero ELSE One)
           /\ result.bayesianUpdate.parent2_carrier_probability =
                  (IF data.fatherStatus = "unaffected" THEN Zero ELSE One)

\* The denominators L p + L' (1 - p) the reverse update evaluates for a
\* record: under autosomal_recessive, observed unaffected, one for each
\* parent whose prior is strictly between 0 and 1; under x_linked, male
\* child, observed unaffected, the mother's, whatever her prior
DenominatorsEvaluated(d) ==
    IF d.observed_child_outcome # "unaffected" THEN {}
    ELSE IF d.inheritancePattern = "autosomal_recessive"
    THEN {BayesDenominator(likelihood_carrier, likelihood_noncarrier, prior) :
              prior \in {q \in {PriorAR(d.motherStatus), PriorAR(d.fatherStatus)} :
                            Less(Zero, q) /\ Less(q, One)}}
    ELSE IF d.inheritancePattern = "x_linked" /\ d.childSex = "male"
    THEN {BayesDenominator(Half, One, PriorXLMother(d.motherStatus))}
    ELSE {}

\* C26: for every pattern, pair of parent statuses, child sex and observed
\* outcome, every Bayes denominator L p + L' (1 - p) the reverse update
\* evaluates is bounded away from zero (it is at least 1/2), also for a
\* prior of exactly 0 or 1, and every posterior lies in [0,1].
BayesDenominatorsSafe ==
    Called =>
        /\ \A den \in DenominatorsEvaluated(data) : Leq(Half, den)
        /\ result.bayesianUpdate # Null =>
               /\ InUnit(result.bayesianUpdate.parent1_carrier_probability)
               /\ InUnit(result.bayesianUpdate.parent2_carrier_probability)

\* x_linked, a carrier mother (prior exactly 1), an unaffected son: the
\* denominator is 1/2 and her posterior is 1
BayesDenominatorsSafeWitness ==
    /\ Called
    /\ data.inheritancePattern = "x_linked" /\ data.childSex = "male"
    /\ data.observed_child_outcome = "unaffected"
    /\ data.motherStatus = "carrier"
    /\ DenominatorsEvaluated(data) = {Half}
    /\ result.bayesianUpdate.parent2_carrier_probability = One

\* C27: whenever the result carries a reverse update, its displayed values
\* agree with it: riskRange prints updated_risk.min and updated_risk.max
\* as percentages and riskPercentage is round(100 x updated_risk.min), for
\* every pattern, pair of parent statuses and child sex.
DisplayAgreesWithUpdate ==
    (Called /\ result.bayesianUpdate # Null) =>
        /\ result.riskRange = RangeText(result.bayesianUpdate.updated_risk.min,
                                        result.bayesianUpdate.updated_risk.max)
        /\ result.riskPercentage = RoundPct(result.bayesianUpdate.updated_risk.min)

\* the cases for which the claim says a reverse update is produced
UpdateExpected(d) ==
    \/ d.inheritancePattern = "autosomal_recessive"
    \/ /\ d.inheritancePattern = "x_linked"
       /\ \/ d.observed_child_outcome = "affected" /\ d.childSex \in {"male", "female"}
          \/ d.observed_child_outcome = "unaffected" /\ d.childSex = "male"

\* C28: with an observed affected or unaffected child the local engine
\* produces a reverse update exactly for autosomal_recessive and for
\* x_linked with (affected, male or female child) or (unaffected, male
\* child); in every other case (autosomal_dominant, x_linked unaffected
\* with a female child, x_linked with the sex unspecified) bayesianUpdate
\* is null and the result is the forward result.
UpdateOnlyWhereSupported ==
    (Called /\ data.observed_child_outcome \in {"affected", "unaffected"}) =>
        /\ (result.bayesianUpdate # Null) <=> UpdateExpected(data)
        /\ ~UpdateExpected(data) =>
               /\ result.riskPercentage = Forward(data).riskPercentage
               /\ result.riskRange = Forward(data).riskRange
               /\ result.reasoning = Forward(data).reasoning
               /\ result.explanation = Forward(data).explanation

\* autosomal_dominant, affected mother, observed affected child: no
\* update, the forward 50%
UpdateOnlyWhereSupportedWitness ==
    /\ Called
    /\ data.inheritancePattern = "autosomal_dominant"
    /\ data.motherStatus = "affected" /\ data.fatherStatus = "unaffected"
    /\ data.observed_child_outcome = "affected"
    /\ result.bayesianUpdate = Null
    /\ result.riskPercentage = 50

\* {reversedResult && observedOutcome !== "unknown" && ...} in the result step
UpdatedCardShown ==
    /\ data.step = "result"
    /\ result # NoResult
    /\ data.observedOutcome # "unknown"

\* C29: whenever the Updated Risk Analysis card is shown, the outcome its
\* header names is the outcome the displayed recalculated result was
\* computed with; and a recalculation is never started while the selected
\* outcome is unknown or while another recalculation is pending.
HeaderNamesComputedOutcome ==
    /\ [](UpdatedCardShown => data.observedOutcome = request.observed_child_outcome)
    /\ [][pc' = "page_recalculating" /\ request' # request =>
              (data.observedOutcome # "unknown" /\ pc = "page")]_vars

\* C30: every POST /api/calculate request receives exactly one response:
\* 400 when validation fails, 200 with the service's result when
\* validation passes and the service answers OK, 500 when the service call
\* throws, answers not OK or unreadably; a response once sent is not
\* replaced, the handler never ends without one, and every request that
\* reached the handler is answered in the end.
ExactlyOneResponse ==
    /\ [](handler = "done" <=> response # NoResponse)
    /\ []((request # NoRequest /\ handler = "done") =>
              IF OffendingFields(request) # {}
              THEN response.status = 400 /\ service.answer = "none"
              ELSE /\ service.calls = 1
                   /\ service.answer = "ok" =>
                          response = Respond(200, service.result)
                   /\ service.answer # "ok" =>
                          response = Respond(500, [message |-> "Internal server error"]))
    /\ [][response # NoResponse => response' = response]_vars
    /\ (handler = "awaiting_service") ~> (response # NoResponse)
    /\ (pc = "external") ~> (response # NoResponse)

\* the service answered not OK and the request was answered 500, once
ExactlyOneResponseWitness ==
    /\ pc = "external"
    /\ request = ValidBody
    /\ handler = "done"
    /\ service.calls = 1
    /\ service.answer = "not ok"
    /\ response = Respond(500, [message |-> "Internal server error"])

====
